---- MODULE Spec2Model ----
(***************************************************************************)
(* A model of the Uclbrt client of src/src/uclbrt.ts: the canonical        *)
(* encoder, the time normalizer, the signers, the response validation of   *)
(* curlPost and the operations built from them.                            *)
(*                                                                         *)
(* Strings are sequences of tokens.  A token is a one-character string,    *)
(* or an atomic string that stands for a fixed piece of text that is only  *)
(* ever used whole (a host, a path literal, a hex digest).  Field names    *)
(* and the values the encoder works on are spelled character by character. *)
(***************************************************************************)
EXTENDS Integers, Sequences, FiniteSets, TLC

VARIABLES
  accountSid,         \* this.accountSid
  authToken,          \* this.authToken
  apiHost,            \* this.apiHost
  cardHost,           \* this.cardHost
  communityNo,        \* this.communityNo (undefined until setCommunityNo)
  communityTimezone,  \* this.communityTimezone
  localTimezone,      \* this.localTimezone
  processTimezone,    \* the time zone of the process (Intl default, Date parsing)
  calls,              \* the operation calls made by the caller, one record per slot
  probe               \* the last direct application of a protected pure method

vars == << accountSid, authToken, apiHost, cardHost, communityNo,
           communityTimezone, localTimezone, processTimezone, calls, probe >>

clientVars == << accountSid, authToken, apiHost, cardHost, communityNo,
                 communityTimezone, localTimezone, processTimezone >>

-----------------------------------------------------------------------------
(* Bounds of the model.                                                    *)

\* number of call slots (operations that can be in flight together)
MaxCalls == 2
\* largest number of fields of a mapping handed to objectToQuery directly
MaxFields == 2

-----------------------------------------------------------------------------
(* JavaScript values: undefined, numbers and strings.                      *)

Undefined == [t |-> "undefined", n |-> 0, s |-> << >>]
Num(k)    == [t |-> "number",    n |-> k, s |-> << >>]
Str(cs)   == [t |-> "string",    n |-> 0, s |-> cs]

\* ToBoolean: what `!x` tests
Truthy(v) ==
  CASE v.t = "undefined" -> FALSE
    [] v.t = "number"    -> v.n # 0
    [] v.t = "string"    -> v.s # << >>

Digit(d) == <<"0", "1", "2", "3", "4", "5", "6", "7", "8", "9">>[d + 1]

RECURSIVE NatToString(_)
NatToString(k) ==
  IF k < 10 THEN << Digit(k) >>
  ELSE NatToString(k \div 10) \o << Digit(k % 10) >>

\* Number.prototype.toString for integers
NumberToString(k) == IF k < 0 THEN <<"-">> \o NatToString(-k) ELSE NatToString(k)

\* ToString of the language, as a template literal `${v}` applies it
StringOf(v) ==
  CASE v.t = "undefined" -> <<"u", "n", "d", "e", "f", "i", "n", "e", "d">>
    [] v.t = "number"    -> NumberToString(v.n)
    [] v.t = "string"    -> v.s

\* the text a token sequence stands for, as one atomic string
RECURSIVE Flat(_)
Flat(cs) ==
  IF cs = << >> THEN ""
  ELSE IF Len(cs) = 1 THEN cs[1]
  ELSE LET half == Len(cs) \div 2
       IN  Flat(SubSeq(cs, 1, half)) \o Flat(SubSeq(cs, half + 1, Len(cs)))

-----------------------------------------------------------------------------
(* Order of strings: Array.prototype.sort without a comparator orders      *)
(* strings by their UTF-16 code units.                                     *)

\* the characters of the model, in ascending code unit order
Ascii ==
  << "&", "-", "0", "1", "2", "3", "4", "5", "6", "7", "8", "9", ":", "=",
     "A", "B", "C", "D", "E", "F", "G", "H", "I", "J", "K", "L", "M",
     "N", "O", "P", "Q", "R", "S", "T", "U", "V", "W", "X", "Y", "Z",
     "a", "b", "c", "d", "e", "f", "g", "h", "i", "j", "k", "l", "m",
     "n", "o", "p", "q", "r", "s", "t", "u", "v", "w", "x", "y", "z" >>

CodeUnit(c) == CHOOSE i \in 1..Len(Ascii) : Ascii[i] = c

RECURSIVE StrLess(_, _)
StrLess(a, b) ==
  IF b = << >> THEN FALSE
  ELSE IF a = << >> THEN TRUE
  ELSE IF Head(a) = Head(b) THEN StrLess(Tail(a), Tail(b))
  ELSE CodeUnit(Head(a)) < CodeUnit(Head(b))

-----------------------------------------------------------------------------
(* Field mappings: a JavaScript object with string keys, as the sequence   *)
(* of its entries [k, v] in insertion order; keys are distinct.            *)

HasKey(data, key) == \E i \in 1..Len(data) : data[i].k = key

Get(data, key) == data[CHOOSE i \in 1..Len(data) : data[i].k = key].v

\* data[key] = value: replaces the value in place or appends a new entry
Put(data, key, value) ==
  IF HasKey(data, key)
  THEN [i \in 1..Len(data) |->
          IF data[i].k = key THEN [k |-> key, v |-> value] ELSE data[i]]
  ELSE Append(data, [k |-> key, v |-> value])

\* Object.keys(data) for non-numeric keys: the keys in insertion order
ObjectKeys(data) == [i \in 1..Len(data) |-> data[i].k]

\* Object.values(data)
ObjectValues(data) == [i \in 1..Len(data) |-> data[i].v]

RECURSIVE InsertSorted(_, _)
InsertSorted(key, sorted) ==
  IF sorted = << >> THEN << key >>
  ELSE IF StrLess(key, Head(sorted)) THEN << key >> \o sorted
  ELSE << Head(sorted) >> \o InsertSorted(key, Tail(sorted))

RECURSIVE SortKeys(_)
SortKeys(keys) ==
  IF keys = << >> THEN << >>
  ELSE InsertSorted(Head(keys), SortKeys(Tail(keys)))

\* a mutant of sortedKeys: the keys.sort() call is missing
sortedKeysUnsorted(data) == ObjectKeys(data)

\* const keys = Object.keys(data); keys.sort();
sortedKeys(data) == SortKeys(ObjectKeys(data))

RECURSIVE Join(_, _)
Join(parts, sep) ==
  IF parts = << >> THEN << >>
  ELSE IF Len(parts) = 1 THEN parts[1]
  ELSE parts[1] \o sep \o Join(Tail(parts), sep)

\* a mutant of objectToQuery: `${key}=${data.key}`, the property named "key",
\* which no mapping of the model holds, in place of data[key]
objectToQueryDataDotKey(data) ==
  LET keys == sortedKeys(data)
      sortedData == [i \in 1..Len(keys) |-> keys[i] \o <<"=">> \o StringOf(Undefined)]
  IN  Join(sortedData, <<"&">>)

\* keys.map((key) => `${key}=${data[key]}`).join('&')
objectToQuery(data) ==
  LET keys == sortedKeys(data)
      sortedData == [i \in 1..Len(keys) |->
                       keys[i] \o <<"=">> \o StringOf(Get(data, keys[i]))]
  IN  Join(sortedData, <<"&">>)

-----------------------------------------------------------------------------
(* Results of a method: a returned value or one thrown Error.              *)

Return(v) == [st |-> "returned", val |-> v, msg |-> << >>]
Throw(m)  == [st |-> "threw", val |-> Undefined, msg |-> m]

-----------------------------------------------------------------------------
(* Time normalizer.  Time zones are IANA names; the model knows three      *)
(* zones without daylight saving, by their offset from UTC in hours.       *)

Zones == {"Asia/Shanghai", "UTC", "Asia/Tokyo"}

UtcOffset(tz) ==
  CASE tz = "Asia/Shanghai" -> 8
    [] tz = "UTC"           -> 0
    [] tz = "Asia/Tokyo"    -> 9

IsDigit(c) == c \in {"0", "1", "2", "3", "4", "5", "6", "7", "8", "9"}

DigitValue(c) == CHOOSE d \in 0..9 : Digit(d) = c

\* timeStr.match(/.{2}/g): the consecutive two-character groups, a trailing
\* single character is dropped (the inputs of the model hold no line terminator)
TwoCharGroups(cs) == [i \in 1..(Len(cs) \div 2) |-> SubSeq(cs, 2 * i - 1, 2 * i)]

IsTwoDigits(g) == Len(g) = 2 /\ IsDigit(g[1]) /\ IsDigit(g[2])

TwoDigitValue(g) == 10 * DigitValue(g[1]) + DigitValue(g[2])

IsLeapYear(y) == (y % 4 = 0 /\ y % 100 # 0) \/ y % 400 = 0

DaysInMonth(y, m) ==
  IF m = 2 THEN (IF IsLeapYear(y) THEN 29 ELSE 28)
  ELSE IF m \in {4, 6, 9, 11} THEN 30 ELSE 31

\* new Date("20YY-MM-DD HH:mm:00") is a valid date: every group is two digits
\* and names a month, a day of that month, an hour and a minute
IsValidDate(t) ==
  /\ \A i \in 1..5 : IsTwoDigits(t[i])
  /\ TwoDigitValue(t[2]) \in 1..12
  /\ TwoDigitValue(t[3]) \in 1..DaysInMonth(2000 + TwoDigitValue(t[1]), TwoDigitValue(t[2]))
  /\ TwoDigitValue(t[4]) \in 0..23
  /\ TwoDigitValue(t[5]) \in 0..59

\* a wall-clock time [y, mo, d, h, mi] moved by a number of days
RECURSIVE AddDays(_, _)
AddDays(w, k) ==
  IF k = 0 THEN w
  ELSE IF k > 0 THEN
    AddDays(IF w.d < DaysInMonth(w.y, w.mo) THEN [w EXCEPT !.d = w.d + 1]
            ELSE IF w.mo < 12 THEN [w EXCEPT !.d = 1, !.mo = w.mo + 1]
            ELSE [w EXCEPT !.d = 1, !.mo = 1, !.y = w.y + 1], k - 1)
  ELSE
    AddDays(IF w.d > 1 THEN [w EXCEPT !.d = w.d - 1]
            ELSE IF w.mo > 1
              THEN [w EXCEPT !.d = DaysInMonth(w.y, w.mo - 1), !.mo = w.mo - 1]
            ELSE [w EXCEPT !.d = 31, !.mo = 12, !.y = w.y - 1], k + 1)

\* a wall-clock time moved by a number of hours
AddHours(w, k) ==
  LET total == w.h + k
  IN  AddDays([w EXCEPT !.h = total % 24], total \div 24)

Pad2(k) == << Digit(k \div 10), Digit(k % 10) >>

\* dt2.toISOString().replace(/-|:|T/g, '').slice(2, 12)
CompactTime(w) ==
  Pad2(w.y % 100) \o Pad2(w.mo) \o Pad2(w.d) \o Pad2(w.h) \o Pad2(w.mi)

\* Lines 126-128: the string is parsed as a wall-clock time of the process zone,
\* rendered in the community zone, parsed again as a wall-clock time of the
\* process zone and printed in UTC.
ConvertTime(t, communityTz, processTz) ==
  LET w == [y  |-> 2000 + TwoDigitValue(t[1]), mo |-> TwoDigitValue(t[2]),
            d  |-> TwoDigitValue(t[3]),        h  |-> TwoDigitValue(t[4]),
            mi |-> TwoDigitValue(t[5])]
  IN  CompactTime(AddHours(w, UtcOffset(communityTz) - 2 * UtcOffset(processTz)))

\* a mutant of toCommunityTime: the equal-time-zone shortcut is missing
toCommunityTimeNoShortcut(timeStr, communityTz, localTz, processTz) ==
  IF timeStr = << >> THEN Return(Str(<< >>))
  ELSE LET t == TwoCharGroups(timeStr)
       IN  IF Len(t) # 5 THEN Throw(<<"time format error.">>)
           ELSE IF ~IsValidDate(t) THEN Throw(<<"Invalid time value">>)
           ELSE IF communityTz \notin Zones
             THEN Throw(<<"Invalid time zone specified">>)
           ELSE Return(Str(ConvertTime(t, communityTz, processTz)))

\* toCommunityTime(timeStr), with the time zones of the client and of the
\* process as parameters
toCommunityTime(timeStr, communityTz, localTz, processTz) ==
  IF timeStr = << >> THEN Return(Str(<< >>))
  ELSE IF communityTz = localTz THEN Return(Str(timeStr))
  ELSE LET t == TwoCharGroups(timeStr)
       IN  IF Len(t) # 5 THEN Throw(<<"time format error.">>)
           ELSE IF ~IsValidDate(t) THEN Throw(<<"Invalid time value">>)
           ELSE IF communityTz \notin Zones
             THEN Throw(<<"Invalid time zone specified">>)
           ELSE Return(Str(ConvertTime(t, communityTz, processTz)))

-----------------------------------------------------------------------------
(* The client after construction (lines 23-59).                            *)

NoProbe ==
  [fn |-> "none", a |-> << >>, b |-> << >>, keys |-> << >>,
   outA |-> << >>, outB |-> << >>,
   timeStr |-> << >>, communityTz |-> "", localTz |-> "", processTz |-> "",
   out |-> Return(Undefined)]

\* the zones the process may run in
ProcessZones == {"Asia/Shanghai", "UTC"}

InitClient ==
  /\ accountSid = <<"A">>
  /\ authToken = <<"T">>
  /\ apiHost = <<"https://api.uclbrt.com/">>
  /\ cardHost = <<"http://cz.uclbrt.com/">>
  /\ communityNo = Undefined
  /\ communityTimezone = "Asia/Shanghai"
  /\ processTimezone \in ProcessZones
  /\ localTimezone = processTimezone

-----------------------------------------------------------------------------
(* Context setters (lines 197-217).                                        *)

\* a mutant of setCommunityNo: the argument is stored without the check
setCommunityNoUnchecked(no) ==
  /\ communityNo' = no
  /\ UNCHANGED << accountSid, authToken, apiHost, cardHost, communityTimezone,
                  localTimezone, processTimezone, calls, probe >>

setCommunityNo(no) ==
  /\ Truthy(no)
  /\ communityNo' = no
  /\ UNCHANGED << accountSid, authToken, apiHost, cardHost, communityTimezone,
                  localTimezone, processTimezone, calls, probe >>

setCommunityTimezone(tz) ==
  /\ tz # ""
  /\ communityTimezone' = tz
  /\ UNCHANGED << accountSid, authToken, apiHost, cardHost, communityNo,
                  localTimezone, processTimezone, calls, probe >>

setLocalTimezone(tz) ==
  /\ tz # ""
  /\ localTimezone' = tz
  /\ UNCHANGED << accountSid, authToken, apiHost, cardHost, communityNo,
                  communityTimezone, processTimezone, calls, probe >>

\* a setter called with a falsy argument throws and changes nothing
setterRejects(no, tz) ==
  /\ ~Truthy(no) \/ tz = ""
  /\ UNCHANGED vars

-----------------------------------------------------------------------------
(* The canonical encoder applied to two field mappings.                    *)

QueryKeys == { <<"a">>, <<"a", "b">>, <<"B">> }

QueryValues == { Str(<<"1">>), Num(2), Str(<<"1", "&", "a", "=", "2">>) }

QueryEntries == [k : QueryKeys, v : QueryValues]

DistinctKeys(m) == \A i, j \in DOMAIN m : i # j => m[i].k # m[j].k

Mappings ==
  UNION { { m \in [1..len -> QueryEntries] : DistinctKeys(m) } : len \in 0..MaxFields }

InitQuery ==
  /\ InitClient
  /\ calls = [i \in 1..MaxCalls |-> << >>]
  /\ \E a \in Mappings, b \in Mappings :
       probe = [NoProbe EXCEPT !.fn = "mappings", !.a = a, !.b = b]

ApplyObjectToQuery ==
  /\ probe.fn = "mappings"
  /\ probe' = [probe EXCEPT !.fn = "objectToQuery",
                            !.keys = sortedKeys(probe.a),
                            !.outA = objectToQuery(probe.a),
                            !.outB = objectToQuery(probe.b)]
  /\ UNCHANGED << clientVars, calls >>

NextQuery == ApplyObjectToQuery

SpecQuery == InitQuery /\ [][NextQuery]_vars

-----------------------------------------------------------------------------
(* The time normalizer applied under the time zones of the client.         *)

TimeInputs ==
  { << >>,
    <<"2", "4", "0", "6", "1", "5", "1", "2", "3", "0">>,
    <<"2", "4", "0", "1", "0", "1", "0", "0", "3", "0">>,
    <<"2", "4", "1", "3", "0", "1", "1", "2", "0", "0">>,
    <<"2">>,
    <<"2", "4", "0", "6", "1", "5", "1", "2", "3">>,
    <<"2", "4", "0", "6", "1", "5", "1", "2", "3", "0", "9">>,
    <<"2", "4", "0", "6", "1", "5", "1", "2", "3", "0", "0", "0">> }

TimezoneArgs == Zones \cup {"", "Mars/Olympus"}

InitTime ==
  /\ InitClient
  /\ calls = [i \in 1..MaxCalls |-> << >>]
  /\ probe = NoProbe

ApplyToCommunityTime(timeStr) ==
  /\ probe' = [NoProbe EXCEPT
                 !.fn = "toCommunityTime", !.timeStr = timeStr,
                 !.communityTz = communityTimezone, !.localTz = localTimezone,
                 !.processTz = processTimezone,
                 !.out = toCommunityTime(timeStr, communityTimezone,
                                         localTimezone, processTimezone)]
  /\ UNCHANGED << clientVars, calls >>

NextTime ==
  \/ \E tz \in TimezoneArgs : setCommunityTimezone(tz)
  \/ \E tz \in TimezoneArgs : setLocalTimezone(tz)
  \/ \E tz \in TimezoneArgs : setterRejects(Num(1), tz)
  \/ \E timeStr \in TimeInputs : ApplyToCommunityTime(timeStr)

SpecTime == InitTime /\ [][NextTime]_vars

-----------------------------------------------------------------------------
(* Claims about the canonical encoder, under SpecQuery.                    *)

KeySet(m) == { m[i].k : i \in DOMAIN m }

SamePairs(a, b) == { a[i] : i \in DOMAIN a } = { b[i] : i \in DOMAIN b }

StrictlyAscending(keys) ==
  \A i, j \in 1..Len(keys) : i < j => StrLess(keys[i], keys[j])

Encoded == probe.fn = "objectToQuery"

\* C7: objectToQuery(m) lists the keys of m in strictly ascending order of their
\* code units, each key of m exactly once, as key=value joined by '&'; two
\* mappings holding the same pairs, inserted in any order, encode alike.
C7_SortedKeysOnceEach ==
  Encoded =>
    /\ StrictlyAscending(probe.keys)
    /\ Len(probe.keys) = Len(probe.a)
    /\ { probe.keys[i] : i \in 1..Len(probe.keys) } = KeySet(probe.a)
    /\ probe.outA =
         Join([i \in 1..Len(probe.keys) |->
                 probe.keys[i] \o <<"=">> \o StringOf(Get(probe.a, probe.keys[i]))],
              <<"&">>)
    /\ (SamePairs(probe.a, probe.b) => probe.outA = probe.outB)

\* C7 witness: two fields were inserted in descending order, the encoder put
\* them in ascending order, and the same pairs inserted the other way round
\* gave the same string
C7_Witness ==
  /\ Encoded
  /\ Len(probe.a) = 2
  /\ probe.keys # ObjectKeys(probe.a)
  /\ probe.a # probe.b
  /\ SamePairs(probe.a, probe.b)
  /\ probe.outA = probe.outB

\* the mappings differ in their key set or in the value of some key
Differ(a, b) ==
  \/ KeySet(a) # KeySet(b)
  \/ \E key \in KeySet(a) \cap KeySet(b) : Get(a, key) # Get(b, key)

\* the same, with values compared by the string the encoder writes for them
DifferAsStrings(a, b) ==
  \/ KeySet(a) # KeySet(b)
  \/ \E key \in KeySet(a) \cap KeySet(b) :
       StringOf(Get(a, key)) # StringOf(Get(b, key))

HasSeparator(cs) == \E i \in 1..Len(cs) : cs[i] \in {"&", "="}

\* no key and no written value of the mapping holds '&' or '='
SeparatorFree(m) ==
  \A i \in DOMAIN m : ~HasSeparator(m[i].k) /\ ~HasSeparator(StringOf(m[i].v))

\* C8 as stated: two mappings that differ in their key set or in a value never
\* encode to the same string, also when values hold '&' or '='.
C8_NeverCollides ==
  (Encoded /\ Differ(probe.a, probe.b)) => probe.outA # probe.outB

\* C8 amended: two mappings whose keys and written values hold neither '&' nor
\* '=' and that differ in their key set or in the written value of some key
\* encode to different strings.
C8_SeparatorFreeNeverCollide ==
  (/\ Encoded
   /\ SeparatorFree(probe.a) /\ SeparatorFree(probe.b)
   /\ DifferAsStrings(probe.a, probe.b)) => probe.outA # probe.outB

\* C8 witness: two separator-free mappings with the same two keys and one
\* different value were encoded
C8_Witness ==
  /\ Encoded
  /\ SeparatorFree(probe.a) /\ SeparatorFree(probe.b)
  /\ Len(probe.a) = 2
  /\ KeySet(probe.a) = KeySet(probe.b)
  /\ DifferAsStrings(probe.a, probe.b)
  /\ probe.outA # probe.outB

-----------------------------------------------------------------------------
(* Claims about the time normalizer, under SpecTime.                       *)

Normalized == probe.fn = "toCommunityTime"

WellFormed(timeStr) == Len(timeStr) = 10 /\ IsValidDate(TwoCharGroups(timeStr))

\* C9 as stated: toCommunityTime raises the format error for every non-empty
\* input that is not exactly 10 characters long, whatever the time zones.
C9_FormatErrorUnlessTenChars ==
  (Normalized /\ probe.timeStr # << >> /\ Len(probe.timeStr) # 10)
    => probe.out = Throw(<<"time format error.">>)

\* C10: toCommunityTime("") returns "" under every time zone setting, and when
\* the community zone equals the operator zone a well-formed input is returned
\* unchanged, after any sequence of time zone setter calls.
C10_EmptyAndEqualZonesUnchanged ==
  Normalized =>
    /\ (probe.timeStr = << >> => probe.out = Return(Str(<< >>)))
    /\ ((probe.communityTz = probe.localTz /\ WellFormed(probe.timeStr))
          => probe.out = Return(Str(probe.timeStr)))

\* C10 witness: both setters moved the zones away from their initial values to
\* a common zone, and a well-formed input came back unchanged
C10_Witness ==
  /\ Normalized
  /\ WellFormed(probe.timeStr)
  /\ probe.communityTz = probe.localTz
  /\ probe.communityTz # "Asia/Shanghai"
  /\ probe.localTz # probe.processTz
  /\ probe.out = Return(Str(probe.timeStr))

-----------------------------------------------------------------------------
(* Field names, spelled character by character.                            *)

\* the field names the operations write into their data objects, as the
\* characters keys.sort() compares
FieldName ==
  [ mobile |-> << "m", "o", "b", "i", "l", "e" >>,
    areaCode |-> << "a", "r", "e", "a", "C", "o", "d", "e" >>,
    roomNo |-> << "r", "o", "o", "m", "N", "o" >>,
    floorNo |-> << "f", "l", "o", "o", "r", "N", "o" >>,
    buildNo |-> << "b", "u", "i", "l", "d", "N", "o" >>,
    communityNo |-> << "c", "o", "m", "m", "u", "n", "i", "t", "y", "N", "o" >>,
    startTime |-> << "s", "t", "a", "r", "t", "T", "i", "m", "e" >>,
    endTime |-> << "e", "n", "d", "T", "i", "m", "e" >>,
    sendSms |-> << "s", "e", "n", "d", "S", "m", "s" >>,
    cardType |-> << "c", "a", "r", "d", "T", "y", "p", "e" >>,
    times |-> << "t", "i", "m", "e", "s" >>,
    opentype |-> << "o", "p", "e", "n", "t", "y", "p", "e" >>,
    isLost |-> << "i", "s", "L", "o", "s", "t" >>,
    cipherType |-> << "c", "i", "p", "h", "e", "r", "T", "y", "p", "e" >>,
    cardNo |-> << "c", "a", "r", "d", "N", "o" >>,
    wholeRoom |-> << "w", "h", "o", "l", "e", "R", "o", "o", "m" >>,
    roomFlag |-> << "r", "o", "o", "m", "F", "l", "a", "g" >>,
    lockType |-> << "l", "o", "c", "k", "T", "y", "p", "e" >>,
    resultType |-> << "r", "e", "s", "u", "l", "t", "T", "y", "p", "e" >>,
    openEndTime |-> << "o", "p", "e", "n", "E", "n", "d", "T", "i", "m", "e" >>,
    accountSid |-> << "a", "c", "c", "o", "u", "n", "t", "S", "i", "d" >>,
    sig |-> << "s", "i", "g" >>,
    issueMac |-> << "i", "s", "s", "u", "e", "M", "a", "c" >>,
    owner |-> << "o", "w", "n", "e", "r" >>,
    creatorAreaCode |-> << "c", "r", "e", "a", "t", "o", "r", "A", "r", "e", "a", "C", "o", "d", "e" >>,
    creatorMobile |-> << "c", "r", "e", "a", "t", "o", "r", "M", "o", "b", "i", "l", "e" >>,
    creatorPassword |-> << "c", "r", "e", "a", "t", "o", "r", "P", "a", "s", "s", "w", "o", "r", "d" >>,
    ownerGender |-> << "o", "w", "n", "e", "r", "G", "e", "n", "d", "e", "r" >>,
    ownerAreaCode |-> << "o", "w", "n", "e", "r", "A", "r", "e", "a", "C", "o", "d", "e" >>,
    ownerMobile |-> << "o", "w", "n", "e", "r", "M", "o", "b", "i", "l", "e" >>,
    creatorEmail |-> << "c", "r", "e", "a", "t", "o", "r", "E", "m", "a", "i", "l" >>,
    operateCardType |-> << "o", "p", "e", "r", "a", "t", "e", "C", "a", "r", "d", "T", "y", "p", "e" >>,
    serialNum |-> << "s", "e", "r", "i", "a", "l", "N", "u", "m" >>,
    cardString |-> << "c", "a", "r", "d", "S", "t", "r", "i", "n", "g" >>,
    timestamp |-> << "t", "i", "m", "e", "s", "t", "a", "m", "p" >>,
    rand |-> << "r", "a", "n", "d" >>,
    startDate |-> << "s", "t", "a", "r", "t", "D", "a", "t", "e" >>,
    endDate |-> << "e", "n", "d", "D", "a", "t", "e" >>,
    recordType |-> << "r", "e", "c", "o", "r", "d", "T", "y", "p", "e" >>,
    holderFrom |-> << "h", "o", "l", "d", "e", "r", "F", "r", "o", "m" >>,
    authToken |-> << "a", "u", "t", "h", "T", "o", "k", "e", "n" >>,
    id |-> << "i", "d" >>,
    token |-> << "t", "o", "k", "e", "n" >>,
    time |-> << "t", "i", "m", "e" >> ]

-----------------------------------------------------------------------------
(* Signature engine (lines 79-102).  A digest is one token that names the  *)
(* hash and the text hashed: equal digests come from equal texts only.     *)

\* crypto.createHash('md5').update(text).digest('hex')
Md5Hex(text) == << "md5(" \o Flat(text) \o ")" >>

\* ...digest('hex').toUpperCase()
Md5HexUpper(text) == << "MD5(" \o Flat(text) \o ")" >>

\* crypto.createHash('sha1').update(text).digest('hex')
Sha1Hex(text) == << "sha1(" \o Flat(text) \o ")" >>

\* Buffer.from(text).toString('base64')
Base64(text) == << "base64(" \o Flat(text) \o ")" >>

getSig(batch) == Md5HexUpper(accountSid \o authToken \o batch)

\* Array.prototype.join(''): undefined joins as the empty string
JoinedValue(v) == IF v.t = "undefined" THEN << >> ELSE StringOf(v)

\* a mutant of getSig2: the values are taken in the order of the sorted keys
getSig2SortedKeys(data) ==
  LET keys == sortedKeys(data)
      imploded == Join([i \in 1..Len(keys) |-> JoinedValue(Get(data, keys[i]))], << >>)
  IN  Md5Hex(imploded \o authToken)

getSig2(data) ==
  LET values == ObjectValues(data)
      imploded == Join([i \in 1..Len(values) |-> JoinedValue(values[i])], << >>)
  IN  Md5Hex(imploded \o authToken)

\* getSig3 line 93: the caller's data object gains the authToken field
getSig3Data(data) == Put(data, FieldName.authToken, Str(authToken))

getSig3(data) == Sha1Hex(objectToQuery(getSig3Data(data)))

getAuth(batch) == Base64(accountSid \o <<":">> \o batch)

-----------------------------------------------------------------------------
(* Replies of the transport and the results of an operation.               *)

\* a decoded reply body: the fields the client reads, undefined when absent
NoFields ==
  [status |-> Undefined, info |-> Undefined, cardNo |-> Undefined,
   data |-> Undefined, baseImg |-> Undefined, bleStr |-> Undefined,
   cipher |-> Undefined]

\* what the transport did with a request: http = 0 is a failure without a
\* response (error.message in text), another status carries the response
\* body in text (not 200) or in result (200); isNull is a falsy body
NoResponse == [http |-> 0, text |-> << >>, isNull |-> FALSE, result |-> NoFields]

\* the settlement of an operation's promise
Returned(v)       == [st |-> "returned", val |-> v, msg |-> << >>, obj |-> NoFields]
ReturnedResult(r) == [st |-> "returned", val |-> Undefined, msg |-> << >>, obj |-> r]
Threw(m)          == [st |-> "threw", val |-> Undefined, msg |-> m, obj |-> NoFields]

True == [t |-> "boolean", n |-> 1, s |-> << >>]

\* a request handed to axios (lines 159-172); auth = << >> adds no
\* Authorization header (line 154)
NoRequest == [url |-> << >>, auth |-> << >>, data |-> << >>, contentType |-> ""]

Request(url, auth, data, contentType) ==
  [url |-> url, auth |-> auth, data |-> data, contentType |-> contentType]

\* the synchronous part of an operation ends by throwing, by returning, or by
\* handing a request to axios and waiting, with the check its callback makes
StepThrow(m)          == [act |-> "throw", out |-> Threw(m), req |-> NoRequest, expect |-> ""]
StepReturn(v)         == [act |-> "return", out |-> Returned(v), req |-> NoRequest, expect |-> ""]
StepSend(req, expect) == [act |-> "send", out |-> Threw(<< >>), req |-> req, expect |-> expect]

-----------------------------------------------------------------------------
(* The inputs of a call from outside the client: the clock, the random     *)
(* number source and the padding of the public-key encryption.             *)

\* new Date() as its compact UTC form and as epoch seconds, Math.random()
\* scaled as line 779 does, the random padding of crypto.publicEncrypt, and
\* whether the encryption succeeds (key material and payload length)
Envs ==
  { [utc |-> "20231114221320", epoch |-> 1700000000, rand |-> 12345678,
     pad |-> "r1", encryptOk |-> TRUE],
    [utc |-> "20231114221321", epoch |-> 1700000001, rand |-> 87654321,
     pad |-> "r2", encryptOk |-> TRUE] }

\* new Date().toISOString().replace(/-|:|T/g, '').slice(0, 14)
Batch(env) == << env.utc >>

\* the arguments of a call; every operation reads the ones it declares
DefaultArgs ==
  [mobile |-> <<"1", "3", "8">>, areaCode |-> <<"8", "6">>,
   roomNo |-> <<"1", "0", "1">>, floorNo |-> <<"1">>, buildNo |-> <<"2">>,
   startTime |-> << >>, endTime |-> << >>, openEndTime |-> << >>,
   sendSms |-> 0, cardType |-> 0, times |-> 0, opentype |-> 0, cipherType |-> 1,
   cardNo |-> <<"X", "1">>, wholeRoom |-> FALSE, roomFlag |-> <<"1", "0", "1">>,
   lockType |-> 0, resultType |-> 1,
   issueMac |-> <<"A", "A", ":", "0", "1">>, serialNum |-> <<"7", "7">>,
   creatorAreaCode |-> <<"8", "6">>, creatorMobile |-> <<"1", "3", "9">>,
   creatorPassword |-> <<"p", "w">>, creatorEmail |-> << >>,
   owner |-> << >>, ownerGender |-> 1, ownerAreaCode |-> << >>,
   ownerMobile |-> << >>, operateCardType |-> 1,
   cardString |-> <<"c", "s">>,
   startDate |-> <<"2", "0", "2", "4", "-", "0", "6", "-", "0", "1">>,
   endDate |-> <<"2", "0", "2", "4", "-", "0", "6", "-", "3", "0">>,
   recordType |-> 0, holderFrom |-> 0]

\* the defaults; a start and an end time of ten characters; an end time of
\* nine characters; an empty mobile and card number
ArgSamples ==
  LET GoodTime == <<"2", "4", "0", "6", "1", "5", "1", "2", "3", "0">>
      LateTime == <<"2", "4", "0", "6", "1", "6", "0", "9", "4", "5">>
      ShortTime == <<"2", "4", "0", "6", "1", "5", "1", "2", "3">>
  IN  { DefaultArgs,
        [DefaultArgs EXCEPT !.startTime = GoodTime, !.endTime = LateTime,
                            !.openEndTime = LateTime],
        [DefaultArgs EXCEPT !.startTime = GoodTime, !.endTime = ShortTime,
                            !.openEndTime = ShortTime],
        [DefaultArgs EXCEPT !.mobile = << >>, !.cardNo = << >>] }

-----------------------------------------------------------------------------
(* Pieces shared by the operations.                                        *)

\* a mutant of checkCommunityNo: the check accepts an unset community
checkCommunityNoAlwaysPasses == TRUE

\* checkCommunityNo (lines 131-135) passes
checkCommunityNo == Truthy(communityNo)

CommunityNoEmpty == <<"communityNo cannot be empty.">>

\* this.communityNo.toString() on undefined
ToStringOfUndefined == <<"Cannot read properties of undefined (reading 'toString')">>

communityNoString == Str(NumberToString(communityNo.n))

toCT(timeStr) ==
  toCommunityTime(timeStr, communityTimezone, localTimezone, processTimezone)

Field(key, value) == [k |-> key, v |-> value]

\* `${this.apiHost}?c=Qrcode&a=<action>&sig=${sig}`
QrcodeUrl(action, batch) ==
  apiHost \o <<"?c=Qrcode&a=">> \o << action >> \o <<"&sig=">> \o getSig(batch)

\* str.slice(0, -2)
SliceOffLastTwo(cs) == IF Len(cs) <= 2 THEN << >> ELSE SubSeq(cs, 1, Len(cs) - 2)

\* crypto.publicEncrypt(...).toString('base64'), then encodeURIComponent
publicEncrypt(text, pad) == << "base64(rsa(" \o Flat(text) \o "," \o pad \o "))" >>

EncodeURIComponent(text) == << "encodeURIComponent(" \o Flat(text) \o ")" >>

-----------------------------------------------------------------------------
(* The synchronous part of each operation: from the call to the request    *)
(* handed to axios, or to the error thrown before that.                    *)

\* create, lines 219-258
createStep(a, env) ==
  IF ~checkCommunityNo THEN StepThrow(CommunityNoEmpty)
  ELSE IF communityNo.t = "undefined" THEN StepThrow(ToStringOfUndefined)
  ELSE LET batch == Batch(env)
           startTime == toCT(a.startTime)
           endTime == toCT(a.endTime)
       IN  IF startTime.st = "threw" THEN StepThrow(startTime.msg)
           ELSE IF endTime.st = "threw" THEN StepThrow(endTime.msg)
           ELSE StepSend(
             Request(QrcodeUrl("getLink", batch), getAuth(batch),
               << Field(FieldName.mobile, Str(a.mobile)), Field(FieldName.areaCode, Str(a.areaCode)),
                  Field(FieldName.roomNo, Str(a.roomNo)), Field(FieldName.floorNo, Str(a.floorNo)),
                  Field(FieldName.buildNo, Str(a.buildNo)),
                  Field(FieldName.communityNo, communityNoString),
                  Field(FieldName.startTime, startTime.val), Field(FieldName.endTime, endTime.val),
                  Field(FieldName.sendSms, Num(a.sendSms)), Field(FieldName.cardType, Num(a.cardType)),
                  Field(FieldName.times, Num(a.times)), Field(FieldName.opentype, Num(a.opentype)) >>,
               "application/json"),
             "cardNo")

\* createRoomKey, lines 260-273: cardType 0, opentype left at its default
createRoomKeyStep(a, env) ==
  createStep([a EXCEPT !.cardType = 0, !.opentype = 0], env)

\* createFloorKey, lines 275-286
createFloorKeyStep(a, env) ==
  createStep([a EXCEPT !.roomNo = << >>, !.cardType = 1, !.times = 0, !.opentype = 0], env)

\* createBuildingKey, lines 288-298
createBuildingKeyStep(a, env) ==
  createStep([a EXCEPT !.roomNo = << >>, !.floorNo = << >>, !.cardType = 2,
                       !.times = 0, !.opentype = 0], env)

\* createRoomLostKey, lines 300-334
createRoomLostKeyStep(a, env) ==
  IF ~checkCommunityNo THEN StepThrow(CommunityNoEmpty)
  ELSE IF communityNo.t = "undefined" THEN StepThrow(ToStringOfUndefined)
  ELSE LET batch == Batch(env)
           startTime == toCT(a.startTime)
           endTime == toCT(a.endTime)
       IN  IF startTime.st = "threw" THEN StepThrow(startTime.msg)
           ELSE IF endTime.st = "threw" THEN StepThrow(endTime.msg)
           ELSE StepSend(
             Request(QrcodeUrl("getLink", batch), getAuth(batch),
               << Field(FieldName.mobile, Str(a.mobile)), Field(FieldName.areaCode, Str(a.areaCode)),
                  Field(FieldName.roomNo, Str(a.roomNo)), Field(FieldName.floorNo, Str(a.floorNo)),
                  Field(FieldName.buildNo, Str(a.buildNo)),
                  Field(FieldName.communityNo, communityNoString),
                  Field(FieldName.startTime, startTime.val), Field(FieldName.endTime, endTime.val),
                  Field(FieldName.cardType, Num(0)), Field(FieldName.times, Num(0)),
                  Field(FieldName.isLost, Num(1)) >>,
               "application/json"),
             "cardNo")

\* generateQRPRoomCipher, lines 336-373
generateQRPRoomCipherStep(a, env) ==
  IF ~checkCommunityNo THEN StepThrow(CommunityNoEmpty)
  ELSE LET batch == Batch(env)
           startTimeFull == toCT(a.startTime)
           endTimeFull == toCT(a.endTime)
       IN  IF startTimeFull.st = "threw" THEN StepThrow(startTimeFull.msg)
           ELSE IF endTimeFull.st = "threw" THEN StepThrow(endTimeFull.msg)
           ELSE IF communityNo.t = "undefined" THEN StepThrow(ToStringOfUndefined)
           ELSE StepSend(
             Request(QrcodeUrl("getLink", batch), getAuth(batch),
               << Field(FieldName.mobile, Str(a.mobile)), Field(FieldName.areaCode, Str(a.areaCode)),
                  Field(FieldName.roomNo, Str(a.roomNo)), Field(FieldName.floorNo, Str(a.floorNo)),
                  Field(FieldName.buildNo, Str(a.buildNo)),
                  Field(FieldName.communityNo, communityNoString),
                  Field(FieldName.startTime,
                        Str(SliceOffLastTwo(startTimeFull.val.s) \o <<"0", "0">>)),
                  Field(FieldName.endTime,
                        Str(SliceOffLastTwo(endTimeFull.val.s) \o <<"0", "0">>)),
                  Field(FieldName.cipherType, Num(a.cipherType)) >>,
               "application/json"),
             "cardNo")

\* reportCardLost, lines 375-392
reportCardLostStep(a, env) ==
  IF ~checkCommunityNo THEN StepThrow(CommunityNoEmpty)
  ELSE LET batch == Batch(env)
       IN  StepSend(
             Request(QrcodeUrl("reportLost", batch), getAuth(batch),
               << Field(FieldName.cardNo, Str(a.cardNo)),
                  Field(FieldName.wholeRoom, Num(IF a.wholeRoom THEN 1 ELSE 0)) >>,
               "application/json"),
             "status")

\* getLink, lines 394-421: no request; the link or an error
getLinkStep(a, env) ==
  IF a.mobile = << >> THEN StepThrow(<<"mobile cannot be empty.">>)
  ELSE IF ~checkCommunityNo THEN StepThrow(CommunityNoEmpty)
  ELSE IF communityNo.t = "undefined" THEN StepThrow(ToStringOfUndefined)
  ELSE LET data == << Field(FieldName.id, Str(accountSid)), Field(FieldName.token, Str(authToken)),
                      Field(FieldName.communityNo, communityNoString),
                      Field(FieldName.time, Num(env.epoch)),
                      Field(FieldName.mobile, Str(a.mobile)), Field(FieldName.areaCode, Str(a.areaCode)),
                      Field(FieldName.cardNo, Str(a.cardNo)), Field(FieldName.cardType, Num(a.cardType)) >>
           query == objectToQuery(data)
       IN  IF ~env.encryptOk THEN StepThrow(<<"failed to generate link.">>)
           ELSE StepReturn(Str(cardHost \o <<"apiLogin/?data=">>
                               \o EncodeURIComponent(publicEncrypt(query, env.pad))))

\* getRoomKeyLink, getFloorKeyLink, getBuildingKeyLink, lines 423-436
getRoomKeyLinkStep(a, env) == getLinkStep([a EXCEPT !.cardType = 0], env)
getFloorKeyLinkStep(a, env) == getLinkStep([a EXCEPT !.cardType = 1], env)
getBuildingKeyLinkStep(a, env) == getLinkStep([a EXCEPT !.cardType = 2], env)

\* getShare, lines 438-464, with the check its caller makes on the result
getShareStep(a, env, expect) ==
  IF ~checkCommunityNo THEN StepThrow(CommunityNoEmpty)
  ELSE IF communityNo.t = "undefined" THEN StepThrow(ToStringOfUndefined)
  ELSE LET batch == Batch(env)
           openEndTime == toCT(a.openEndTime)
       IN  IF openEndTime.st = "threw" THEN StepThrow(openEndTime.msg)
           ELSE StepSend(
             Request(QrcodeUrl("getCard", batch), getAuth(batch),
               << Field(FieldName.mobile, Str(a.mobile)), Field(FieldName.areaCode, Str(a.areaCode)),
                  Field(FieldName.communityNo, communityNoString),
                  Field(FieldName.roomFlag, Str(a.roomFlag)),
                  Field(FieldName.cardType, Num(a.cardType)), Field(FieldName.lockType, Num(a.lockType)),
                  Field(FieldName.resultType, Num(a.resultType)),
                  Field(FieldName.openEndTime, openEndTime.val) >>,
               "application/json"),
             expect)

\* getRoomKeyImage, getFloorKeyImage, getBuildingKeyImage, lines 466-509
getRoomKeyImageStep(a, env) ==
  getShareStep([a EXCEPT !.roomFlag = a.cardNo, !.cardType = 0, !.resultType = 1],
               env, "baseImg")
getFloorKeyImageStep(a, env) ==
  getShareStep([a EXCEPT !.roomFlag = a.cardNo, !.cardType = 1, !.resultType = 1],
               env, "baseImg")
getBuildingKeyImageStep(a, env) ==
  getShareStep([a EXCEPT !.roomFlag = a.cardNo, !.cardType = 2, !.resultType = 1],
               env, "baseImg")

\* getRoomKeyString, lines 511-518 (the third argument is the mac)
getRoomKeyStringStep(a, env) ==
  getShareStep([a EXCEPT !.roomFlag = a.issueMac, !.cardType = 0,
                         !.openEndTime = << >>, !.lockType = 0, !.resultType = 2],
               env, "bleStr")

\* getQRPRoomCipher, lines 520-527
getQRPRoomCipherStep(a, env) ==
  getShareStep([a EXCEPT !.roomFlag = a.cardNo, !.cardType = 0,
                         !.openEndTime = << >>, !.lockType = 0, !.resultType = 4],
               env, "cipher")

\* cancel, lines 529-546
cancelStep(a, env) ==
  IF ~checkCommunityNo THEN StepThrow(CommunityNoEmpty)
  ELSE LET batch == Batch(env)
       IN  StepSend(
             Request(QrcodeUrl("cancelCard", batch), getAuth(batch),
               << Field(FieldName.cardNo, Str(a.cardNo)), Field(FieldName.cardType, Num(a.cardType)) >>,
               "application/json"),
             "info")

\* cancelRoomKey, cancelFloorKey, cancelBuildingKey, lines 548-561
cancelRoomKeyStep(a, env) == cancelStep([a EXCEPT !.cardType = 0], env)
cancelFloorKeyStep(a, env) == cancelStep([a EXCEPT !.cardType = 1], env)
cancelBuildingKeyStep(a, env) == cancelStep([a EXCEPT !.cardType = 2], env)

\* a mutant of getMacListStep: the request is sent with the getAuth header
getMacListStepWithAuth(a, env) ==
  IF ~checkCommunityNo THEN StepThrow(CommunityNoEmpty)
  ELSE LET data == << Field(FieldName.accountSid, Str(accountSid)),
                      Field(FieldName.communityNo, communityNoString) >>
       IN  StepSend(
             Request(apiHost \o <<"Home/Qrm/getMacList">>, getAuth(Batch(env)),
                     Put(data, FieldName.sig, Str(getSig2(data))),
                     "application/x-www-form-urlencoded"),
             "data")

\* getMacList, lines 563-579
getMacListStep(a, env) ==
  IF ~checkCommunityNo THEN StepThrow(CommunityNoEmpty)
  ELSE IF communityNo.t = "undefined" THEN StepThrow(ToStringOfUndefined)
  ELSE LET data == << Field(FieldName.accountSid, Str(accountSid)),
                      Field(FieldName.communityNo, communityNoString) >>
       IN  StepSend(
             Request(apiHost \o <<"Home/Qrm/getMacList">>, << >>,
                     Put(data, FieldName.sig, Str(getSig2(data))),
                     "application/x-www-form-urlencoded"),
             "data")

\* the fields makeCard and makeLostCard add after the signature, lines 610-621
CardFields(data, a) ==
  LET d1 == Put(data, FieldName.sig, Str(getSig2(data)))
      d2 == Put(d1, FieldName.owner, Str(a.owner))
      d3 == Put(d2, FieldName.creatorAreaCode, Str(a.creatorAreaCode))
      d4 == Put(d3, FieldName.creatorMobile, Str(a.creatorMobile))
      d5 == Put(d4, FieldName.creatorPassword, Str(Md5Hex(a.creatorPassword)))
      d6 == Put(d5, FieldName.opentype, Num(a.opentype))
      d7 == Put(d6, FieldName.ownerGender, Num(a.ownerGender))
      d8 == Put(d7, FieldName.ownerAreaCode, Str(a.ownerAreaCode))
      d9 == Put(d8, FieldName.ownerMobile, Str(a.ownerMobile))
  IN  Put(d9, FieldName.creatorEmail, Str(a.creatorEmail))

\* the data literal of makeCard and makeLostCard, lines 600-608
CardData(a, endTime) ==
  << Field(FieldName.issueMac, Str(a.issueMac)), Field(FieldName.endTime, endTime),
     Field(FieldName.accountSid, Str(accountSid)), Field(FieldName.communityNo, communityNoString),
     Field(FieldName.buildNo, Str(a.buildNo)), Field(FieldName.floorNo, Str(a.floorNo)),
     Field(FieldName.roomNo, Str(a.roomNo)) >>

\* makeCard, lines 581-628
makeCardStep(a, env) ==
  IF ~checkCommunityNo THEN StepThrow(CommunityNoEmpty)
  ELSE LET endTime == toCT(a.endTime)
       IN  IF endTime.st = "threw" THEN StepThrow(endTime.msg)
           ELSE IF communityNo.t = "undefined" THEN StepThrow(ToStringOfUndefined)
           ELSE StepSend(
             Request(apiHost \o <<"Home/Qrm/makeRoomCard">>, << >>,
                     CardFields(CardData(a, endTime.val), a),
                     "application/x-www-form-urlencoded"),
             "info")

\* makeLostCard, lines 630-678: isLost is set to creatorEmail (line 671)
makeLostCardStep(a, env) ==
  IF ~checkCommunityNo THEN StepThrow(CommunityNoEmpty)
  ELSE LET endTime == toCT(a.endTime)
       IN  IF endTime.st = "threw" THEN StepThrow(endTime.msg)
           ELSE IF communityNo.t = "undefined" THEN StepThrow(ToStringOfUndefined)
           ELSE StepSend(
             Request(apiHost \o <<"Home/Qrm/makeRoomCard">>, << >>,
                     Put(CardFields(CardData(a, endTime.val), a),
                         FieldName.isLost, Str(a.creatorEmail)),
                     "application/x-www-form-urlencoded"),
             "info")

\* readCard, lines 680-711
readCardStep(a, env) ==
  IF ~checkCommunityNo THEN StepThrow(CommunityNoEmpty)
  ELSE IF communityNo.t = "undefined" THEN StepThrow(ToStringOfUndefined)
  ELSE LET data == << Field(FieldName.accountSid, Str(accountSid)),
                      Field(FieldName.communityNo, communityNoString),
                      Field(FieldName.issueMac, Str(a.issueMac)),
                      Field(FieldName.creatorAreaCode, Str(a.creatorAreaCode)),
                      Field(FieldName.creatorMobile, Str(a.creatorMobile)),
                      Field(FieldName.creatorPassword, Str(Md5Hex(a.creatorPassword))) >>
           d1 == Put(data, FieldName.sig, Str(getSig2(data)))
           d2 == Put(d1, FieldName.operateCardType, Num(a.operateCardType))
       IN  StepSend(
             Request(apiHost \o <<"Home/Qrm/readCard">>, << >>,
                     Put(d2, FieldName.creatorEmail, Str(a.creatorEmail)),
                     "application/x-www-form-urlencoded"),
             "infoResult")

\* cancelCard, lines 713-746
cancelCardStep(a, env) ==
  IF ~checkCommunityNo THEN StepThrow(CommunityNoEmpty)
  ELSE IF communityNo.t = "undefined" THEN StepThrow(ToStringOfUndefined)
  ELSE LET data == << Field(FieldName.accountSid, Str(accountSid)),
                      Field(FieldName.communityNo, communityNoString),
                      Field(FieldName.issueMac, Str(a.issueMac)),
                      Field(FieldName.serialNum, Str(a.serialNum)),
                      Field(FieldName.creatorAreaCode, Str(a.creatorAreaCode)),
                      Field(FieldName.creatorMobile, Str(a.creatorMobile)),
                      Field(FieldName.creatorPassword, Str(Md5Hex(a.creatorPassword))) >>
           d1 == Put(data, FieldName.sig, Str(getSig2(data)))
           d2 == Put(d1, FieldName.operateCardType, Num(a.operateCardType))
       IN  StepSend(
             Request(apiHost \o <<"Home/Qrm/cancelCard">>, << >>,
                     Put(d2, FieldName.creatorEmail, Str(a.creatorEmail)),
                     "application/x-www-form-urlencoded"),
             "infoResult")

\* getRoomCardInfo, lines 748-764: no checkCommunityNo
getRoomCardInfoStep(a, env) ==
  IF communityNo.t = "undefined" THEN StepThrow(ToStringOfUndefined)
  ELSE LET batch == Batch(env)
       IN  StepSend(
             Request(QrcodeUrl("getRoomCardInfo", batch), getAuth(batch),
               << Field(FieldName.communityNo, communityNoString),
                  Field(FieldName.cardString, Str(a.cardString)) >>,
               "application/json"),
             "infoData")

\* `${this.apiHost}Home/Records/<name>?sig=${sig}`, with the data object as
\* getSig3 leaves it
RecordsRequest(name, data) ==
  Request(apiHost \o <<"Home/Records/">> \o << name >> \o <<"?sig=">> \o getSig3(data),
          << >>, getSig3Data(data), "application/x-www-form-urlencoded")

\* getRecordsByRoom, lines 766-797: no checkCommunityNo
getRecordsByRoomStep(a, env) ==
  IF communityNo.t = "undefined" THEN StepThrow(ToStringOfUndefined)
  ELSE StepSend(
         RecordsRequest("queryByRoom",
           << Field(FieldName.accountSid, Str(accountSid)), Field(FieldName.timestamp, Num(env.epoch)),
              Field(FieldName.rand, Num(env.rand)), Field(FieldName.communityNo, communityNoString),
              Field(FieldName.buildNo, Str(a.buildNo)), Field(FieldName.floorNo, Str(a.floorNo)),
              Field(FieldName.roomNo, Str(a.roomNo)), Field(FieldName.startDate, Str(a.startDate)),
              Field(FieldName.endDate, Str(a.endDate)), Field(FieldName.recordType, Num(a.recordType)),
              Field(FieldName.holderFrom, Num(a.holderFrom)) >>),
         "data")

\* the data literal of fetchRoomInfo and getBoxInfo, lines 801-805 and 818-822
InfoData(env) ==
  << Field(FieldName.accountSid, Str(accountSid)), Field(FieldName.timestamp, Num(env.epoch)),
     Field(FieldName.communityNo, communityNoString) >>

\* fetchRoomInfo, lines 799-814: no checkCommunityNo
fetchRoomInfoStep(a, env) ==
  IF communityNo.t = "undefined" THEN StepThrow(ToStringOfUndefined)
  ELSE StepSend(RecordsRequest("fetchRoomInfo", InfoData(env)), "data")

\* getBoxInfo, lines 816-831: no checkCommunityNo
getBoxInfoStep(a, env) ==
  IF communityNo.t = "undefined" THEN StepThrow(ToStringOfUndefined)
  ELSE StepSend(RecordsRequest("getBoxInfo", InfoData(env)), "data")

-----------------------------------------------------------------------------
(* The replies the transport may give.                                     *)

Success == Str(<<"s", "u", "c", "c", "e", "s", "s">>)

\* {status: 200, info: "success", cardNo, data, baseImg, bleStr, cipher}
FullResult ==
  [status |-> Num(200), info |-> Success, cardNo |-> Str(<<"X">>),
   data |-> Str(<<"D">>), baseImg |-> Str(<<"I">>), bleStr |-> Str(<<"B">>),
   cipher |-> Str(<<"C">>)]

Responses ==
  { \* no response at all: error.message
    [NoResponse EXCEPT !.text = <<"Network Error">>],
    \* HTTP 500 with a text body: axios rejects with error.response
    [NoResponse EXCEPT !.http = 500, !.text = <<"oops">>],
    \* HTTP 201: axios resolves, the status is not 200
    [NoResponse EXCEPT !.http = 201, !.text = <<"created">>],
    \* HTTP 200, body null
    [NoResponse EXCEPT !.http = 200, !.isNull = TRUE],
    \* HTTP 200, {status: 200, ...every payload field}
    [NoResponse EXCEPT !.http = 200, !.result = FullResult],
    \* HTTP 200, {status: 200}
    [NoResponse EXCEPT !.http = 200, !.result = [NoFields EXCEPT !.status = Num(200)]],
    \* HTTP 200, {status: 500, info: "fail"}
    [NoResponse EXCEPT !.http = 200,
       !.result = [NoFields EXCEPT !.status = Num(500), !.info = Str(<<"fail">>)]],
    \* HTTP 200, every payload field but no status
    [NoResponse EXCEPT !.http = 200, !.result = [FullResult EXCEPT !.status = Undefined]] }

-----------------------------------------------------------------------------
(* curlPost after the reply (lines 176-194) and the callbacks.             *)

\* new Error(x).message
ErrorMessage(v) == IF v.t = "undefined" THEN << >> ELSE StringOf(v)

RequestFailed(http) == <<"Request failed with status code ">> \o NatToString(http)

\* a mutant of curlPost: a reply without a status field passes the status check
curlPostStatusWhenPresent(response) ==
  IF response.http = 0 THEN Threw(response.text)
  ELSE IF response.http < 200 \/ response.http >= 300
    THEN Threw(IF response.text # << >> THEN response.text
               ELSE RequestFailed(response.http))
  ELSE IF response.http # 200 THEN Threw(response.text)
  ELSE IF response.isNull
    THEN Threw(<<"Cannot read properties of null (reading 'info')">>)
  ELSE IF response.result.status.t # "undefined" /\ response.result.status # Num(200)
    THEN Threw(ErrorMessage(response.result.info))
  ELSE ReturnedResult(response.result)

\* curlPost from the settlement of axios(config) on: the result object or
\* the Error of line 193
curlPost(response) ==
  IF response.http = 0 THEN Threw(response.text)
  ELSE IF response.http < 200 \/ response.http >= 300
    THEN Threw(IF response.text # << >> THEN response.text
               ELSE RequestFailed(response.http))
  ELSE IF response.http # 200 THEN Threw(response.text)
  ELSE IF response.isNull
    THEN Threw(<<"Cannot read properties of null (reading 'info')">>)
  ELSE IF response.result.status # Num(200)
    THEN Threw(ErrorMessage(response.result.info))
  ELSE ReturnedResult(response.result)

Unexpected == <<"server returns an unexpected value.">>

NotFound(field) ==
  <<"the ">> \o << field >> \o <<" is not found in the return result of the server.">>

\* a mutant of thenCallback: the missing-field checks are left out
thenCallbackNoCheck(expect, result) ==
  CASE expect = "cardNo"  -> Returned(result.cardNo)
    [] expect = "baseImg" -> Returned(result.baseImg)
    [] expect = "bleStr"  -> Returned(result.bleStr)
    [] expect = "cipher"  -> Returned(result.cipher)
    [] expect = "data"    -> Returned(result.data)
    [] expect = "infoData" -> Returned(result.data)
    [] expect = "infoResult" -> ReturnedResult(result)
    [] expect = "result"  -> ReturnedResult(result)
    [] OTHER -> Returned(True)

\* what an operation does with the result of curlPost, by the check it makes
thenCallback(expect, result) ==
  CASE expect = "cardNo" ->
         IF ~Truthy(result.cardNo) THEN Threw(NotFound("cardNo"))
         ELSE Returned(result.cardNo)
    [] expect = "baseImg" ->
         IF ~Truthy(result.baseImg) THEN Threw(NotFound("baseImg"))
         ELSE Returned(result.baseImg)
    [] expect = "bleStr" ->
         IF ~Truthy(result.bleStr) THEN Threw(NotFound("bleStr"))
         ELSE Returned(result.bleStr)
    [] expect = "cipher" ->
         IF ~Truthy(result.cipher) THEN Threw(NotFound("cipher"))
         ELSE Returned(result.cipher)
    [] expect = "status" ->
         IF ~Truthy(result.status) \/ result.status # Num(200)
         THEN Threw(ErrorMessage(result.info)) ELSE Returned(True)
    [] expect = "info" ->
         IF ~Truthy(result.info) \/ result.info # Success
         THEN Threw(Unexpected) ELSE Returned(True)
    [] expect = "infoResult" ->
         IF ~Truthy(result.info) \/ result.info # Success
         THEN Threw(Unexpected) ELSE ReturnedResult(result)
    [] expect = "infoData" ->
         IF ~Truthy(result.info) \/ result.info # Success
         THEN Threw(Unexpected) ELSE Returned(result.data)
    [] expect = "data" ->
         IF ~Truthy(result.data) THEN Threw(Unexpected)
         ELSE Returned(result.data)
    [] expect = "result" -> ReturnedResult(result)

\* the settlement of the operation's promise once the reply is in
Settlement(expect, response) ==
  LET posted == curlPost(response)
  IN  IF posted.st = "threw" THEN posted ELSE thenCallback(expect, posted.obj)

-----------------------------------------------------------------------------
(* Calls.  A slot holds one call of a public operation from the moment it  *)
(* is made until the caller has taken its outcome.                         *)

Slots == 1..MaxCalls

\* the context fields of the client that the setters change
Context ==
  [communityNo |-> communityNo, communityTimezone |-> communityTimezone,
   localTimezone |-> localTimezone]

\* pc: "idle", "sent" (axios(config) pending), "replied" (axios settled, the
\* continuation of curlPost not yet run), "done" (the promise of the operation
\* is settled).  requests: the requests handed to axios; outcomes: the
\* settlements of the promise; ctx: the context when the call was made;
\* overlap: another call was in flight when this one was made.
IdleCall ==
  [pc |-> "idle", op |-> "", args |-> DefaultArgs,
   env |-> [utc |-> "", epoch |-> 0, rand |-> 0, pad |-> "", encryptOk |-> TRUE],
   ctx |-> [communityNo |-> Undefined, communityTimezone |-> "", localTimezone |-> ""],
   overlap |-> FALSE, requests |-> << >>, expect |-> "",
   response |-> NoResponse, outcomes |-> << >>]

\* the call of an operation up to its first await, as the record of slot i:
\* the request is handed to axios, or the promise is settled without one
Called(i, op, a, env, step) ==
  [pc |-> IF step.act = "send" THEN "sent" ELSE "done",
   op |-> op, args |-> a, env |-> env, ctx |-> Context,
   overlap |-> \E j \in Slots : j # i /\ calls[j].pc \in {"sent", "replied"},
   requests |-> IF step.act = "send" THEN << step.req >> ELSE << >>,
   expect |-> step.expect,
   response |-> NoResponse,
   outcomes |-> IF step.act = "send" THEN << >> ELSE << step.out >>]

StepOf(op, a, env) ==
  CASE op = "create" -> createStep(a, env)
    [] op = "createRoomKey" -> createRoomKeyStep(a, env)
    [] op = "createFloorKey" -> createFloorKeyStep(a, env)
    [] op = "createBuildingKey" -> createBuildingKeyStep(a, env)
    [] op = "createRoomLostKey" -> createRoomLostKeyStep(a, env)
    [] op = "generateQRPRoomCipher" -> generateQRPRoomCipherStep(a, env)
    [] op = "reportCardLost" -> reportCardLostStep(a, env)
    [] op = "getLink" -> getLinkStep(a, env)
    [] op = "getRoomKeyLink" -> getRoomKeyLinkStep(a, env)
    [] op = "getFloorKeyLink" -> getFloorKeyLinkStep(a, env)
    [] op = "getBuildingKeyLink" -> getBuildingKeyLinkStep(a, env)
    [] op = "getShare" -> getShareStep(a, env, "result")
    [] op = "getRoomKeyImage" -> getRoomKeyImageStep(a, env)
    [] op = "getFloorKeyImage" -> getFloorKeyImageStep(a, env)
    [] op = "getBuildingKeyImage" -> getBuildingKeyImageStep(a, env)
    [] op = "getRoomKeyString" -> getRoomKeyStringStep(a, env)
    [] op = "getQRPRoomCipher" -> getQRPRoomCipherStep(a, env)
    [] op = "cancel" -> cancelStep(a, env)
    [] op = "cancelRoomKey" -> cancelRoomKeyStep(a, env)
    [] op = "cancelFloorKey" -> cancelFloorKeyStep(a, env)
    [] op = "cancelBuildingKey" -> cancelBuildingKeyStep(a, env)
    [] op = "getMacList" -> getMacListStep(a, env)
    [] op = "makeCard" -> makeCardStep(a, env)
    [] op = "makeLostCard" -> makeLostCardStep(a, env)
    [] op = "readCard" -> readCardStep(a, env)
    [] op = "cancelCard" -> cancelCardStep(a, env)
    [] op = "getRoomCardInfo" -> getRoomCardInfoStep(a, env)
    [] op = "getRecordsByRoom" -> getRecordsByRoomStep(a, env)
    [] op = "fetchRoomInfo" -> fetchRoomInfoStep(a, env)
    [] op = "getBoxInfo" -> getBoxInfoStep(a, env)

create(i, a, env) ==
  /\ calls[i].pc = "idle"
  /\ calls' = [calls EXCEPT ![i] = Called(i, "create", a, env, createStep(a, env))]
  /\ UNCHANGED << clientVars, probe >>

createRoomKey(i, a, env) ==
  /\ calls[i].pc = "idle"
  /\ calls' = [calls EXCEPT ![i] = Called(i, "createRoomKey", a, env, createRoomKeyStep(a, env))]
  /\ UNCHANGED << clientVars, probe >>

createFloorKey(i, a, env) ==
  /\ calls[i].pc = "idle"
  /\ calls' = [calls EXCEPT ![i] = Called(i, "createFloorKey", a, env, createFloorKeyStep(a, env))]
  /\ UNCHANGED << clientVars, probe >>

createBuildingKey(i, a, env) ==
  /\ calls[i].pc = "idle"
  /\ calls' = [calls EXCEPT ![i] = Called(i, "createBuildingKey", a, env, createBuildingKeyStep(a, env))]
  /\ UNCHANGED << clientVars, probe >>

createRoomLostKey(i, a, env) ==
  /\ calls[i].pc = "idle"
  /\ calls' = [calls EXCEPT ![i] = Called(i, "createRoomLostKey", a, env, createRoomLostKeyStep(a, env))]
  /\ UNCHANGED << clientVars, probe >>

generateQRPRoomCipher(i, a, env) ==
  /\ calls[i].pc = "idle"
  /\ calls' = [calls EXCEPT ![i] = Called(i, "generateQRPRoomCipher", a, env, generateQRPRoomCipherStep(a, env))]
  /\ UNCHANGED << clientVars, probe >>

reportCardLost(i, a, env) ==
  /\ calls[i].pc = "idle"
  /\ calls' = [calls EXCEPT ![i] = Called(i, "reportCardLost", a, env, reportCardLostStep(a, env))]
  /\ UNCHANGED << clientVars, probe >>

getLink(i, a, env) ==
  /\ calls[i].pc = "idle"
  /\ calls' = [calls EXCEPT ![i] = Called(i, "getLink", a, env, getLinkStep(a, env))]
  /\ UNCHANGED << clientVars, probe >>

getRoomKeyLink(i, a, env) ==
  /\ calls[i].pc = "idle"
  /\ calls' = [calls EXCEPT ![i] = Called(i, "getRoomKeyLink", a, env, getRoomKeyLinkStep(a, env))]
  /\ UNCHANGED << clientVars, probe >>

getFloorKeyLink(i, a, env) ==
  /\ calls[i].pc = "idle"
  /\ calls' = [calls EXCEPT ![i] = Called(i, "getFloorKeyLink", a, env, getFloorKeyLinkStep(a, env))]
  /\ UNCHANGED << clientVars, probe >>

getBuildingKeyLink(i, a, env) ==
  /\ calls[i].pc = "idle"
  /\ calls' = [calls EXCEPT ![i] = Called(i, "getBuildingKeyLink", a, env, getBuildingKeyLinkStep(a, env))]
  /\ UNCHANGED << clientVars, probe >>

getShare(i, a, env) ==
  /\ calls[i].pc = "idle"
  /\ calls' = [calls EXCEPT ![i] = Called(i, "getShare", a, env, getShareStep(a, env, "result"))]
  /\ UNCHANGED << clientVars, probe >>

getRoomKeyImage(i, a, env) ==
  /\ calls[i].pc = "idle"
  /\ calls' = [calls EXCEPT ![i] = Called(i, "getRoomKeyImage", a, env, getRoomKeyImageStep(a, env))]
  /\ UNCHANGED << clientVars, probe >>

getFloorKeyImage(i, a, env) ==
  /\ calls[i].pc = "idle"
  /\ calls' = [calls EXCEPT ![i] = Called(i, "getFloorKeyImage", a, env, getFloorKeyImageStep(a, env))]
  /\ UNCHANGED << clientVars, probe >>

getBuildingKeyImage(i, a, env) ==
  /\ calls[i].pc = "idle"
  /\ calls' = [calls EXCEPT ![i] = Called(i, "getBuildingKeyImage", a, env, getBuildingKeyImageStep(a, env))]
  /\ UNCHANGED << clientVars, probe >>

getRoomKeyString(i, a, env) ==
  /\ calls[i].pc = "idle"
  /\ calls' = [calls EXCEPT ![i] = Called(i, "getRoomKeyString", a, env, getRoomKeyStringStep(a, env))]
  /\ UNCHANGED << clientVars, probe >>

getQRPRoomCipher(i, a, env) ==
  /\ calls[i].pc = "idle"
  /\ calls' = [calls EXCEPT ![i] = Called(i, "getQRPRoomCipher", a, env, getQRPRoomCipherStep(a, env))]
  /\ UNCHANGED << clientVars, probe >>

cancel(i, a, env) ==
  /\ calls[i].pc = "idle"
  /\ calls' = [calls EXCEPT ![i] = Called(i, "cancel", a, env, cancelStep(a, env))]
  /\ UNCHANGED << clientVars, probe >>

cancelRoomKey(i, a, env) ==
  /\ calls[i].pc = "idle"
  /\ calls' = [calls EXCEPT ![i] = Called(i, "cancelRoomKey", a, env, cancelRoomKeyStep(a, env))]
  /\ UNCHANGED << clientVars, probe >>

cancelFloorKey(i, a, env) ==
  /\ calls[i].pc = "idle"
  /\ calls' = [calls EXCEPT ![i] = Called(i, "cancelFloorKey", a, env, cancelFloorKeyStep(a, env))]
  /\ UNCHANGED << clientVars, probe >>

cancelBuildingKey(i, a, env) ==
  /\ calls[i].pc = "idle"
  /\ calls' = [calls EXCEPT ![i] = Called(i, "cancelBuildingKey", a, env, cancelBuildingKeyStep(a, env))]
  /\ UNCHANGED << clientVars, probe >>

getMacList(i, a, env) ==
  /\ calls[i].pc = "idle"
  /\ calls' = [calls EXCEPT ![i] = Called(i, "getMacList", a, env, getMacListStep(a, env))]
  /\ UNCHANGED << clientVars, probe >>

makeCard(i, a, env) ==
  /\ calls[i].pc = "idle"
  /\ calls' = [calls EXCEPT ![i] = Called(i, "makeCard", a, env, makeCardStep(a, env))]
  /\ UNCHANGED << clientVars, probe >>

makeLostCard(i, a, env) ==
  /\ calls[i].pc = "idle"
  /\ calls' = [calls EXCEPT ![i] = Called(i, "makeLostCard", a, env, makeLostCardStep(a, env))]
  /\ UNCHANGED << clientVars, probe >>

readCard(i, a, env) ==
  /\ calls[i].pc = "idle"
  /\ calls' = [calls EXCEPT ![i] = Called(i, "readCard", a, env, readCardStep(a, env))]
  /\ UNCHANGED << clientVars, probe >>

cancelCard(i, a, env) ==
  /\ calls[i].pc = "idle"
  /\ calls' = [calls EXCEPT ![i] = Called(i, "cancelCard", a, env, cancelCardStep(a, env))]
  /\ UNCHANGED << clientVars, probe >>

getRoomCardInfo(i, a, env) ==
  /\ calls[i].pc = "idle"
  /\ calls' = [calls EXCEPT ![i] = Called(i, "getRoomCardInfo", a, env, getRoomCardInfoStep(a, env))]
  /\ UNCHANGED << clientVars, probe >>

getRecordsByRoom(i, a, env) ==
  /\ calls[i].pc = "idle"
  /\ calls' = [calls EXCEPT ![i] = Called(i, "getRecordsByRoom", a, env, getRecordsByRoomStep(a, env))]
  /\ UNCHANGED << clientVars, probe >>

fetchRoomInfo(i, a, env) ==
  /\ calls[i].pc = "idle"
  /\ calls' = [calls EXCEPT ![i] = Called(i, "fetchRoomInfo", a, env, fetchRoomInfoStep(a, env))]
  /\ UNCHANGED << clientVars, probe >>

getBoxInfo(i, a, env) ==
  /\ calls[i].pc = "idle"
  /\ calls' = [calls EXCEPT ![i] = Called(i, "getBoxInfo", a, env, getBoxInfoStep(a, env))]
  /\ UNCHANGED << clientVars, probe >>

\* axios(config) settles: the transport answers the request of call i
axiosSettles(i, response) ==
  /\ calls[i].pc = "sent"
  /\ calls' = [calls EXCEPT ![i].pc = "replied", ![i].response = response]
  /\ UNCHANGED << clientVars, probe >>

\* a mutant of curlPostResumes: a network failure is answered by sending the
\* request again
curlPostResumesRetrying(i) ==
  /\ calls[i].pc = "replied"
  /\ calls' = [calls EXCEPT ![i] =
       IF calls[i].response.http = 0 /\ Len(calls[i].requests) < 2
       THEN [calls[i] EXCEPT !.pc = "sent",
                             !.requests = Append(@, calls[i].requests[1])]
       ELSE [calls[i] EXCEPT !.pc = "done",
                             !.outcomes = Append(@, Settlement(calls[i].expect,
                                                               calls[i].response))]]
  /\ UNCHANGED << clientVars, probe >>

\* a mutant of curlPostResumes: the reply is kept in a field shared by the
\* calls, so a continuation reads the reply of the first call that has one
curlPostResumesSharedReply(i) ==
  /\ calls[i].pc = "replied"
  /\ LET first == CHOOSE j \in Slots :
                    /\ calls[j].pc = "replied"
                    /\ \A k \in Slots : calls[k].pc = "replied" => j <= k
     IN  calls' = [calls EXCEPT
           ![i].pc = "done",
           ![i].outcomes = Append(@, Settlement(calls[i].expect,
                                                calls[first].response))]
  /\ UNCHANGED << clientVars, probe >>

\* the continuation of curlPost after `await axios(config)` and the callback
\* of the operation: the promise of call i is settled
curlPostResumes(i) ==
  /\ calls[i].pc = "replied"
  /\ calls' = [calls EXCEPT
       ![i].pc = "done",
       ![i].outcomes = Append(@, Settlement(calls[i].expect, calls[i].response))]
  /\ UNCHANGED << clientVars, probe >>

\* the caller takes the outcome of call i; the slot is free again
callerTakesOutcome(i) ==
  /\ calls[i].pc = "done"
  /\ calls' = [calls EXCEPT ![i] = IdleCall]
  /\ UNCHANGED << clientVars, probe >>

-----------------------------------------------------------------------------
(* The client used by a caller that awaits each call before the next.      *)

LinkEnvs == Envs \cup { [e EXCEPT !.encryptOk = FALSE] : e \in Envs }

CommunityNoArgs == { Num(0), Num(7) }

Init ==
  /\ InitClient
  /\ calls = [i \in Slots |-> IdleCall]
  /\ probe = NoProbe

Next ==
  \/ \E no \in CommunityNoArgs : setCommunityNo(no)
  \/ \E tz \in {"", "UTC"} : setCommunityTimezone(tz)
  \/ \E tz \in {"", "UTC"} : setLocalTimezone(tz)
  \/ \E no \in CommunityNoArgs, tz \in {"", "UTC"} : setterRejects(no, tz)
  \/ \E a \in ArgSamples, env \in Envs : create(1, a, env)
  \/ \E a \in ArgSamples, env \in Envs : createRoomKey(1, a, env)
  \/ \E a \in ArgSamples, env \in Envs : createFloorKey(1, a, env)
  \/ \E a \in ArgSamples, env \in Envs : createBuildingKey(1, a, env)
  \/ \E a \in ArgSamples, env \in Envs : createRoomLostKey(1, a, env)
  \/ \E a \in ArgSamples, env \in Envs : generateQRPRoomCipher(1, a, env)
  \/ \E a \in ArgSamples, env \in Envs : reportCardLost(1, a, env)
  \/ \E a \in ArgSamples, env \in LinkEnvs : getLink(1, a, env)
  \/ \E a \in ArgSamples, env \in LinkEnvs : getRoomKeyLink(1, a, env)
  \/ \E a \in ArgSamples, env \in LinkEnvs : getFloorKeyLink(1, a, env)
  \/ \E a \in ArgSamples, env \in LinkEnvs : getBuildingKeyLink(1, a, env)
  \/ \E a \in ArgSamples, env \in Envs : getShare(1, a, env)
  \/ \E a \in ArgSamples, env \in Envs : getRoomKeyImage(1, a, env)
  \/ \E a \in ArgSamples, env \in Envs : getFloorKeyImage(1, a, env)
  \/ \E a \in ArgSamples, env \in Envs : getBuildingKeyImage(1, a, env)
  \/ \E a \in ArgSamples, env \in Envs : getRoomKeyString(1, a, env)
  \/ \E a \in ArgSamples, env \in Envs : getQRPRoomCipher(1, a, env)
  \/ \E a \in ArgSamples, env \in Envs : cancel(1, a, env)
  \/ \E a \in ArgSamples, env \in Envs : cancelRoomKey(1, a, env)
  \/ \E a \in ArgSamples, env \in Envs : cancelFloorKey(1, a, env)
  \/ \E a \in ArgSamples, env \in Envs : cancelBuildingKey(1, a, env)
  \/ \E a \in ArgSamples, env \in Envs : getMacList(1, a, env)
  \/ \E a \in ArgSamples, env \in Envs : makeCard(1, a, env)
  \/ \E a \in ArgSamples, env \in Envs : makeLostCard(1, a, env)
  \/ \E a \in ArgSamples, env \in Envs : readCard(1, a, env)
  \/ \E a \in ArgSamples, env \in Envs : cancelCard(1, a, env)
  \/ \E a \in ArgSamples, env \in Envs : getRoomCardInfo(1, a, env)
  \/ \E a \in ArgSamples, env \in Envs : getRecordsByRoom(1, a, env)
  \/ \E a \in ArgSamples, env \in Envs : fetchRoomInfo(1, a, env)
  \/ \E a \in ArgSamples, env \in Envs : getBoxInfo(1, a, env)
  \/ \E response \in Responses : axiosSettles(1, response)
  \/ curlPostResumes(1)
  \/ callerTakesOutcome(1)

Spec == Init /\ [][Next]_vars

-----------------------------------------------------------------------------
(* Several calls in flight on one client: every slot may hold a call, and  *)
(* the transport answers the pending requests in any order.                *)

\* the clock, random number and padding read by the call in slot i: calls in
\* different slots read different ones
EnvOf(i) ==
  [utc |-> "2023111422132" \o Digit(i), epoch |-> 1700000000 + i,
   rand |-> 12345678 + i, pad |-> "r" \o Digit(i), encryptOk |-> TRUE]

NextConcurrent ==
  \/ setCommunityNo(Num(7))
  \/ \E i \in Slots : create(i, DefaultArgs, EnvOf(i))
  \/ \E i \in Slots : getRecordsByRoom(i, DefaultArgs, EnvOf(i))
  \/ \E i \in Slots,
        response \in { [NoResponse EXCEPT !.text = <<"Network Error">>],
                       [NoResponse EXCEPT !.http = 200, !.result = FullResult] } :
       axiosSettles(i, response)
  \/ \E i \in Slots : curlPostResumes(i)
  \/ \E i \in Slots : callerTakesOutcome(i)

SpecConcurrent == Init /\ [][NextConcurrent]_vars

-----------------------------------------------------------------------------
(* The community check (C1, C4).                                           *)

\* the operations that call checkCommunityNo
CheckedOps ==
  { "create", "createRoomKey", "createFloorKey", "createBuildingKey",
    "createRoomLostKey", "generateQRPRoomCipher", "reportCardLost",
    "getLink", "getRoomKeyLink", "getFloorKeyLink", "getBuildingKeyLink",
    "getShare", "getRoomKeyImage", "getFloorKeyImage", "getBuildingKeyImage",
    "getRoomKeyString", "getQRPRoomCipher",
    "cancel", "cancelRoomKey", "cancelFloorKey", "cancelBuildingKey",
    "getMacList", "makeCard", "makeLostCard", "readCard", "cancelCard" }

\* call i was made on a client whose communityNo had never been set
MadeWithoutCommunity(i) ==
  calls[i].pc # "idle" /\ calls[i].ctx.communityNo = Undefined

\* C1: an operation that requires the community id, called on a client whose
\* communityNo has never been set, raises an error and hands no request to the
\* transport: the call is settled at once, by an error, with no request made.
C1_UnsetCommunityRaisesBeforeRequest ==
  \A i \in Slots :
    (MadeWithoutCommunity(i) /\ calls[i].op \in CheckedOps) =>
       /\ calls[i].pc = "done"
       /\ calls[i].requests = << >>
       /\ Len(calls[i].outcomes) = 1
       /\ calls[i].outcomes[1].st = "threw"

\* createRoomKey was called before any setCommunityNo and threw the error of
\* checkCommunityNo without a request
C1_Witness ==
  /\ MadeWithoutCommunity(1)
  /\ calls[1].op = "createRoomKey"
  /\ calls[1].requests = << >>
  /\ calls[1].outcomes = << Threw(CommunityNoEmpty) >>

\* C4 as stated: getRoomCardInfo called on a client whose communityNo has
\* never been set is not failed before the request and hands its request to
\* the transport.
C4_RoomCardInfoSendsWithoutCommunity ==
  \A i \in Slots :
    (MadeWithoutCommunity(i) /\ calls[i].op = "getRoomCardInfo") =>
       /\ Len(calls[i].requests) = 1
       /\ calls[i].outcomes # << Threw(ToStringOfUndefined) >>

-----------------------------------------------------------------------------
(* The validation of a reply (C2, C3).                                     *)

CardNoOps == { "create", "createRoomLostKey", "generateQRPRoomCipher" }

\* call i is settled after a reply with HTTP status 200 and a decoded body
SettledOnReply(i) ==
  /\ calls[i].pc = "done"
  /\ Len(calls[i].requests) = 1
  /\ calls[i].response.http = 200
  /\ ~calls[i].response.isNull

\* C2: for create, createRoomLostKey and generateQRPRoomCipher and a reply
\* received with HTTP status 200: status 200 with a truthy cardNo returns that
\* cardNo; a status other than 200 raises an error whose message is the reply's
\* info; status 200 without a cardNo raises the error naming cardNo.
C2_CardNoReplyValidated ==
  \A i \in Slots :
    (SettledOnReply(i) /\ calls[i].op \in CardNoOps) =>
       LET r == calls[i].response.result
       IN  /\ (r.status = Num(200) /\ Truthy(r.cardNo)) =>
                calls[i].outcomes = << Returned(r.cardNo) >>
           /\ (r.status.t # "undefined" /\ r.status # Num(200)) =>
                calls[i].outcomes = << Threw(ErrorMessage(r.info)) >>
           /\ (r.status = Num(200) /\ ~Truthy(r.cardNo)) =>
                calls[i].outcomes = << Threw(NotFound("cardNo")) >>

\* create got the reply {status: 200} and raised the error naming cardNo
C2_Witness ==
  /\ SettledOnReply(1)
  /\ calls[1].op = "create"
  /\ calls[1].response.result = [NoFields EXCEPT !.status = Num(200)]
  /\ calls[1].outcomes = << Threw(NotFound("cardNo")) >>

\* call i is settled after an HTTP-200 reply that has no status field
SettledOnReplyWithoutStatus(i) ==
  SettledOnReply(i) /\ calls[i].response.result.status = Undefined

\* C3 as stated: a reply received with HTTP status 200 that has no status
\* field is not rejected by the status check, and the outcome of the operation
\* is the one of its expected-field check.
C3_StatusCheckedOnlyWhenPresent ==
  \A i \in Slots :
    SettledOnReplyWithoutStatus(i) =>
      calls[i].outcomes = << thenCallback(calls[i].expect, calls[i].response.result) >>

\* C3, amended: the status check applies whether or not the field is present;
\* a reply received with HTTP status 200 that has no status field is rejected
\* with an error whose message is the reply's info, whatever the operation
\* expects.
C3_ReplyWithoutStatusRejected ==
  \A i \in Slots :
    SettledOnReplyWithoutStatus(i) =>
      calls[i].outcomes = << Threw(ErrorMessage(calls[i].response.result.info)) >>

\* getMacList got a reply with a truthy data and no status, and raised
C3_Witness ==
  /\ SettledOnReplyWithoutStatus(1)
  /\ calls[1].op = "getMacList"
  /\ Truthy(calls[1].response.result.data)
  /\ calls[1].outcomes = << Threw(ErrorMessage(Success)) >>

-----------------------------------------------------------------------------
(* One outcome, at most one request (C5).                                  *)

\* C5: every call hands at most one request to the transport and has at most
\* one outcome; it is settled exactly when it has its one outcome, which is a
\* returned payload or a raised error.
C5_OneOutcomeAtMostOneRequest ==
  \A i \in Slots :
    /\ Len(calls[i].requests) <= 1
    /\ Len(calls[i].outcomes) <= 1
    /\ (calls[i].pc = "done") <=> (Len(calls[i].outcomes) = 1)
    /\ \A k \in 1..Len(calls[i].outcomes) :
         calls[i].outcomes[k].st \in {"returned", "threw"}

\* a call whose request met a network failure: one request, one error
C5_Witness ==
  /\ calls[1].pc = "done"
  /\ calls[1].response = [NoResponse EXCEPT !.text = <<"Network Error">>]
  /\ Len(calls[1].requests) = 1
  /\ calls[1].outcomes = << Threw(<<"Network Error">>) >>

-----------------------------------------------------------------------------
(* Calls in flight together (C6).                                          *)

\* C6: whatever other calls are in flight, the request of a call and the
\* error it raises before a request are those its own arguments, its own
\* clock and random inputs and the client state at the call give, and its
\* outcome after a request is the one its own reply gives.
C6_CallsIndependent ==
  \A i \in Slots :
    /\ (calls[i].pc # "idle" /\ calls[i].ctx = Context) =>
         LET step == StepOf(calls[i].op, calls[i].args, calls[i].env)
         IN  /\ calls[i].requests =
                  (IF step.act = "send" THEN << step.req >> ELSE << >>)
             /\ calls[i].expect = step.expect
             /\ step.act # "send" =>
                  calls[i].outcomes = << step.out >>
    /\ (calls[i].pc = "done" /\ calls[i].requests # << >>) =>
         calls[i].outcomes = << Settlement(calls[i].expect, calls[i].response) >>

\* call 2 was made while call 1 was in flight, both got different replies,
\* and call 2 is settled from its own reply before call 1 has resumed
C6_Witness ==
  /\ calls[1].pc = "replied"
  /\ calls[2].pc = "done"
  /\ calls[2].overlap
  /\ calls[2].requests # << >>
  /\ calls[1].requests # calls[2].requests
  /\ calls[1].response # calls[2].response
  /\ calls[2].outcomes = << Settlement(calls[2].expect, calls[2].response) >>

-----------------------------------------------------------------------------
(* The Authorization header (C11).                                         *)

\* curlPost lines 154-157: the header is added when auth is truthy
HasAuthorization(req) == req.auth # << >>

\* the operations that post to ?c=Qrcode with the batch signature
QrcodeOps ==
  { "create", "createRoomKey", "createFloorKey", "createBuildingKey",
    "createRoomLostKey", "generateQRPRoomCipher", "reportCardLost",
    "getShare", "getRoomKeyImage", "getFloorKeyImage", "getBuildingKeyImage",
    "getRoomKeyString", "getQRPRoomCipher",
    "cancel", "cancelRoomKey", "cancelFloorKey", "cancelBuildingKey",
    "getRoomCardInfo" }

\* C11: a request handed to the transport carries an Authorization header
\* exactly when its operation is of the Qrcode (batch-signature) family, and
\* then the header is getAuth of the batch of that call; the requests of the
\* Qrm and Records families carry none.
C11_AuthorizationOnlyForQrcode ==
  \A i \in Slots :
    \A k \in 1..Len(calls[i].requests) :
      LET req == calls[i].requests[k]
      IN  /\ HasAuthorization(req) <=> (calls[i].op \in QrcodeOps)
          /\ calls[i].op \in QrcodeOps =>
               req.auth = Base64(accountSid \o <<":">> \o Batch(calls[i].env))

\* getMacList, of the Qrm family, has handed over a request without the header
C11_Witness ==
  /\ calls[1].op = "getMacList"
  /\ Len(calls[1].requests) = 1
  /\ ~HasAuthorization(calls[1].requests[1])
  /\ calls[1].requests[1].url = apiHost \o <<"Home/Qrm/getMacList">>

-----------------------------------------------------------------------------
(* The concatenation signature applied to two field mappings (C12).        *)

ApplyGetSig2 ==
  /\ probe.fn = "mappings"
  /\ probe' = [probe EXCEPT !.fn = "getSig2",
                            !.outA = getSig2(probe.a),
                            !.outB = getSig2(probe.b)]
  /\ UNCHANGED << clientVars, calls >>

SpecSig2 == InitQuery /\ [][ApplyGetSig2]_vars

\* the two mappings hold the same key/value pairs, inserted in different orders
Reordered == SamePairs(probe.a, probe.b) /\ probe.a # probe.b

\* the written values of a mapping, one after the other in insertion order
RECURSIVE ValueText(_)
ValueText(m) ==
  IF m = << >> THEN << >> ELSE StringOf(Head(m).v) \o ValueText(Tail(m))

\* C12 as stated: inserting the same key/value pairs in a different order makes
\* getSig2 return a different digest.
C12_ReorderingChangesDigest ==
  (probe.fn = "getSig2" /\ Reordered) => probe.outA # probe.outB

\* C12, amended: for the same key/value pairs inserted in a different order,
\* getSig2 returns a different digest exactly when the values, written one
\* after the other in insertion order, give a different text; a reordering
\* that leaves that text the same leaves the digest the same.
C12_DigestFollowsValueText ==
  (probe.fn = "getSig2" /\ Reordered) =>
     ((probe.outA # probe.outB) <=> (ValueText(probe.a) # ValueText(probe.b)))

\* {a: "1", B: 2} inserted as a,B and as B,a: the digests differ
C12_Witness ==
  /\ probe.fn = "getSig2"
  /\ probe.a = << [k |-> <<"a">>, v |-> Str(<<"1">>)], [k |-> <<"B">>, v |-> Num(2)] >>
  /\ probe.b = << [k |-> <<"B">>, v |-> Num(2)], [k |-> <<"a">>, v |-> Str(<<"1">>)] >>
  /\ probe.outA # probe.outB

-----------------------------------------------------------------------------
(* The client from its construction on (C13).                              *)

\* the constructor (lines 23-59) with the default hosts: it throws on an empty
\* accountSid or authToken, else the fields are those of the configuration
constructor(config) ==
  /\ config.accountSid # << >>
  /\ config.authToken # << >>
  /\ accountSid = config.accountSid
  /\ authToken = config.authToken
  /\ apiHost = <<"https://api.uclbrt.com/">>
  /\ cardHost = <<"http://cz.uclbrt.com/">>
  /\ communityNo = Undefined
  /\ communityTimezone = "Asia/Shanghai"
  /\ processTimezone \in ProcessZones
  /\ localTimezone = processTimezone

\* a client of any configuration the constructor accepts; probe keeps the
\* configuration given
InitConstructed ==
  \E config \in [accountSid : { << >>, <<"A">>, <<"A", "B">> },
                 authToken : { << >>, <<"T">> }] :
    /\ constructor(config)
    /\ calls = [i \in Slots |-> IdleCall]
    /\ probe = [NoProbe EXCEPT !.fn = "constructor",
                               !.a = config.accountSid, !.b = config.authToken]

SpecConstructed == InitConstructed /\ [][Next]_vars

\* C13: in every state reachable after a successful construction, through
\* setters and operation calls, accountSid and authToken are non-empty and are
\* the values given at construction, both time zones are non-empty, and
\* communityNo is unset or a number other than zero.
C13_IdentityAndContextKept ==
  /\ accountSid # << >> /\ accountSid = probe.a
  /\ authToken # << >> /\ authToken = probe.b
  /\ communityTimezone # ""
  /\ localTimezone # ""
  /\ \/ communityNo = Undefined
     \/ communityNo.t = "number" /\ communityNo.n # 0

\* after setCommunityNo(7), setCommunityTimezone('UTC') and a call of
\* getMacList that failed on the reply, the identity is the one constructed
C13_Witness ==
  /\ probe.a = <<"A", "B">>
  /\ accountSid = <<"A", "B">>
  /\ authToken = <<"T">>
  /\ communityNo = Num(7)
  /\ communityTimezone = "UTC"
  /\ calls[1].op = "getMacList"
  /\ calls[1].pc = "done"
  /\ Len(calls[1].requests) = 1
  /\ calls[1].outcomes[1].st = "threw"

-----------------------------------------------------------------------------
(* The authToken in what is handed to the transport (C14).                 *)

\* the text cs holds the text part as a run of consecutive characters
Contains(cs, part) ==
  \E i \in 1..(Len(cs) - Len(part) + 1) : SubSeq(cs, i, i + Len(part) - 1) = part

\* the request shows the authToken: in its url, in its Authorization header,
\* or in its body as a field named authToken or a field whose value is it
ShowsAuthToken(req) ==
  \/ Contains(req.url, authToken)
  \/ Contains(req.auth, authToken)
  \/ \E f \in 1..Len(req.data) :
       \/ req.data[f].k = FieldName.authToken
       \/ req.data[f].v.t = "string" /\ Contains(req.data[f].v.s, authToken)

\* C14 as stated: no url, Authorization header or request body handed to the
\* transport contains the authToken; in particular the bodies posted by
\* getRecordsByRoom, fetchRoomInfo and getBoxInfo have no authToken field.
C14_AuthTokenNeverSent ==
  \A i \in Slots :
    \A k \in 1..Len(calls[i].requests) : ~ShowsAuthToken(calls[i].requests[k])

====
